---------------------------- MODULE Spec2Model ----------------------------
(***************************************************************************)
(* A model of atlassian-server.py: the Jira rich-text extractor, the two   *)
(* transport functions, the Jira issue aggregation and the Confluence      *)
(* create-or-update reconciliation behind the three MCP tools.             *)
(*                                                                         *)
(* JSON values are tagged records; Python str values are sequences of      *)
(* text chunks, so that concatenation and " ".join are sequence            *)
(* operations and the empty string is << >>.                               *)
(***************************************************************************)
EXTENDS Integers, Sequences, FiniteSets, TLC

VARIABLES
    doc,        \* the description_field handed to extract_description_from_jira
    extracted,  \* what the extractor call produced for doc (Pending before the call)
    creds,      \* whether JIRA_EMAIL / JIRA_API_TOKEN / CONFLUENCE_API_TOKEN are defined
    wiki,       \* the remote wiki's page for the one (space, title) the tools address
    inv         \* per tool invocation: arguments, position, locals, requests, outcome

vars == <<doc, extracted, creds, wiki, inv>>

---------------------------------------------------------------------------
(* Bounds of the model.                                                    *)

MaxBlocks == 2      \* block nodes in a rich-text document
MaxInline == 2      \* inline nodes in a well-formed paragraph
MaxCalls == 2       \* extractor calls on the same document
NumInv == 2         \* concurrent invocations of the page tools
MaxVersion == 2     \* version number of the page before any invocation runs
MaxSubs == 2        \* declared sub-issue references of a parent issue

---------------------------------------------------------------------------
(* JSON values and the Python operations the code applies to them.         *)

None == [t |-> "null"]
Str(s) == [t |-> "str", s |-> s]
Num(n) == [t |-> "num", n |-> n]
Lst(q) == [t |-> "list", items |-> q]
Obj(f) == [t |-> "obj", fields |-> f]
EmptyObj == Obj(<< >>)

\* A raised exception, as the value of an expression that did not complete.
Raise(e) == [t |-> "raise", exc |-> e]
IsRaise(v) == v.t = "raise"

\* Python truthiness of a JSON value (`if not x`, `if x`).
Truthy(v) ==
    CASE v.t = "null" -> FALSE
      [] v.t = "str"  -> v.s # << >>
      [] v.t = "num"  -> v.n # 0
      [] v.t = "list" -> v.items # << >>
      [] v.t = "obj"  -> DOMAIN v.fields # {}
      [] OTHER        -> TRUE

\* x.get(k, d): only a dict has .get; anything else raises AttributeError.
Get(v, k, d) ==
    IF v.t # "obj" THEN Raise("AttributeError")
    ELSE IF k \in DOMAIN v.fields THEN v.fields[k] ELSE d

\* x[k] on a dict: KeyError when the key is missing, TypeError on a non-dict
\* that is not subscriptable by a string.
Index(v, k) ==
    IF v.t # "obj" THEN Raise("TypeError")
    ELSE IF k \in DOMAIN v.fields THEN v.fields[k] ELSE Raise("KeyError")

RECURSIVE KeySeq(_)
KeySeq(S) ==
    IF S = {} THEN << >>
    ELSE LET k == CHOOSE x \in S : TRUE IN <<Str(<<k>>)>> \o KeySeq(S \ {k})

\* `for x in v`: the items of a list, the characters of a str, the keys of a
\* dict; None and numbers are not iterable (TypeError).
\* The result is Lst(<<...>>) of what the loop visits, or the TypeError.
Iter(v) ==
    CASE v.t = "list" -> v
      [] v.t = "str"  -> Lst([i \in 1..Len(v.s) |-> Str(<<v.s[i]>>)])
      [] v.t = "obj"  -> Lst(KeySeq(DOMAIN v.fields))
      [] OTHER        -> Raise("TypeError")

---------------------------------------------------------------------------
(* extract_description_from_jira                                           *)

NoDescription == <<"No description available">>

\* " ".join(parts): TypeError when an item is not a str.
RECURSIVE JoinStr(_)
JoinStr(parts) ==
    IF Len(parts) = 1 THEN parts[1].s
    ELSE parts[1].s \o <<" ">> \o JoinStr(Tail(parts))

MutJoin(parts) ==
    IF \E i \in 1..Len(parts) : parts[i].t # "str" THEN Raise("TypeError")
    ELSE IF parts = << >> THEN Str(<< >>)
    ELSE Str(JoinStr([i \in 1..Len(parts) |-> parts[Len(parts) + 1 - i]]))

Join(parts) ==
    IF \E i \in 1..Len(parts) : parts[i].t # "str" THEN Raise("TypeError")
    ELSE IF parts = << >> THEN Str(<< >>)
    ELSE Str(JoinStr(parts))

\* The inner loop (lines 113-117) over one paragraph's inline nodes:
\* Lst(text_parts) after the loop, or the exception that ended it.
RECURSIVE InlineLoop(_, _)
InlineLoop(items, text_parts) ==
    IF items = << >> THEN Lst(text_parts)
    ELSE LET text_item == Head(items)
             ty == Get(text_item, "type", None)
         IN  IF IsRaise(ty) THEN ty
             ELSE IF ty = Str(<<"text">>)
                  THEN LET text == Get(text_item, "text", Str(<< >>))
                       IN  InlineLoop(Tail(items),
                                      IF Truthy(text) THEN Append(text_parts, text)
                                                      ELSE text_parts)
                  ELSE InlineLoop(Tail(items), text_parts)

\* The outer loop (lines 110-117) over the document's block nodes.
RECURSIVE BlockLoop(_, _)
BlockLoop(items, text_parts) ==
    IF items = << >> THEN Lst(text_parts)
    ELSE LET item == Head(items)
             ty == Get(item, "type", None)
         IN  IF IsRaise(ty) THEN ty
             ELSE IF ty = Str(<<"paragraph">>)
                  THEN LET paragraph_content == Iter(Get(item, "content", Lst(<< >>)))
                       IN  IF IsRaise(paragraph_content) THEN paragraph_content
                           ELSE LET inner == InlineLoop(paragraph_content.items, text_parts)
                                IN  IF IsRaise(inner) THEN inner
                                    ELSE BlockLoop(Tail(items), inner.items)
                  ELSE BlockLoop(Tail(items), text_parts)

\* The body of the try block (lines 104-119): a Str, or the exception raised.
TryBody(description_field) ==
    LET content == Get(description_field, "content", Lst(<< >>))
    IN  IF IsRaise(content) THEN content
        ELSE IF ~Truthy(content) THEN Str(NoDescription)
        ELSE LET blocks == Iter(content)
             IN  IF IsRaise(blocks) THEN blocks
                 ELSE LET text_parts == BlockLoop(blocks.items, << >>)
                      IN  IF IsRaise(text_parts) THEN text_parts
                          ELSE IF text_parts.items # << >> THEN Join(text_parts.items)
                          ELSE Str(NoDescription)

MutCaught == {"AttributeError", "KeyError"}

\* The exceptions the except clause names (line 121).
Caught == {"AttributeError", "KeyError", "TypeError"}

extract_description_from_jira(description_field) ==
    IF ~Truthy(description_field) THEN Str(NoDescription)
    ELSE LET r == TryBody(description_field)
         IN  IF IsRaise(r) /\ r.exc \in Caught THEN Str(NoDescription) ELSE r

---------------------------------------------------------------------------
(* The rich-text documents the extractor is applied to.                    *)

RECURSIVE SeqsUpTo(_, _)
SeqsUpTo(S, n) ==
    IF n = 0 THEN {<< >>}
    ELSE LET shorter == SeqsUpTo(S, n - 1)
         IN  shorter \cup {Append(q, x) : q \in {p \in shorter : Len(p) = n - 1}, x \in S}

TextNode(s) == Obj([type |-> Str(<<"text">>), text |-> s])
MentionNode == Obj([type |-> Str(<<"mention">>), attrs |-> EmptyObj])
Paragraph(c) == Obj([type |-> Str(<<"paragraph">>), content |-> c])
Heading(c) == Obj([type |-> Str(<<"heading">>), content |-> c])
Document(c) == Obj([type |-> Str(<<"doc">>), content |-> c])

\* Inline nodes of the documented schema: text runs, and (MentionNode) an
\* unrecognised kind.
GoodInline == {TextNode(Str(<<"a">>)), TextNode(Str(<<"b">>))}

\* Blocks of the documented schema: paragraphs of text runs, paragraphs
\* with an unrecognised inline node, and an unrecognised block.
GoodBlocks ==
    {Paragraph(Lst(q)) : q \in SeqsUpTo(GoodInline, MaxInline)}
        \cup { Paragraph(Lst(<<MentionNode>>)),
               Paragraph(Lst(<<TextNode(Str(<<"a">>)), MentionNode>>)),
               Paragraph(Lst(<<MentionNode, TextNode(Str(<<"b">>))>>)),
               Heading(Lst(<<TextNode(Str(<<"h">>))>>)) }

\* Node shapes outside the schema.
BadBlocks ==
    { Paragraph(Num(7)),                                 \* content is a number
      Paragraph(None),                                   \* content is null
      Paragraph(EmptyObj),                               \* content is an empty object
      Paragraph(Str(<<"x">>)),                           \* content is a string
      Paragraph(Lst(<<Num(1)>>)),                        \* an inline node is a number
      Paragraph(Lst(<<TextNode(Num(5))>>)),              \* text is a non-zero number
      Paragraph(Lst(<<TextNode(Num(0))>>)),              \* text is the number 0
      Paragraph(Lst(<<TextNode(Str(<< >>))>>)),          \* text is the empty string
      Paragraph(Lst(<<TextNode(Lst(<<Str(<<"a">>)>>))>>)), \* text is a list
      Obj([type |-> Str(<<"paragraph">>)]),              \* no content field
      Heading(Num(7)),                                   \* unrecognised block, bad content
      Num(1),                                            \* a block that is a number
      Str(<<"p">>) }                                     \* a block that is a string

Blocks == GoodBlocks \cup BadBlocks

Documents ==
    {Document(Lst(q)) : q \in SeqsUpTo(Blocks, MaxBlocks)}
        \cup { None, EmptyObj, Str(<< >>), Str(<<"plain">>), Num(3), Lst(<< >>),
               Lst(<<Paragraph(Lst(<<TextNode(Str(<<"a">>))>>))>>),
               Obj([type |-> Str(<<"doc">>)]),
               Document(None), Document(Num(3)), Document(Str(<<"ab">>)),
               Document(EmptyObj), Document(Obj([type |-> Str(<<"paragraph">>)])) }

---------------------------------------------------------------------------
(* Python str helpers and extract_jira_field_value.                        *)

\* str(v) / f"{v}" of a JSON value.
ToText(v) ==
    CASE v.t = "str"  -> v.s
      [] v.t = "null" -> <<"None">>
      [] v.t = "num"  -> <<ToString(v.n)>>
      [] v.t = "list" -> <<"[...]">>
      [] OTHER        -> <<"{...}">>

extract_jira_field_value(field_data, field_name) ==
    IF ~Truthy(field_data) THEN Str(<<"Unknown">>)
    ELSE IF field_data.t = "obj" THEN Get(field_data, field_name, Str(<<"Unknown">>))
    ELSE Str(ToText(field_data))

---------------------------------------------------------------------------
(* Transport: make_jira_request and make_confluence_request.               *)

\* What the one HTTP exchange of a call ends in: a 2xx response with a JSON
\* body, a non-2xx response (raise_for_status), or an httpx exception.
Failures == {"non2xx", "connect_error", "timeout"}
Statuses == {"2xx"} \cup Failures

MutTransportReturn(status, body) ==
    IF status = "2xx" THEN body
    ELSE IF status = "timeout" THEN Raise("TimeoutException")
    ELSE None

\* The value the call returns to its caller (lines 165-174 and 210-219).
TransportReturn(status, body) ==
    IF status = "2xx" THEN body ELSE None

JIRA_BASE_URL == <<"https://onedatascan.atlassian.net">>
CONFLUENCE_BASE_URL == <<"https://onedatascan.atlassian.net/wiki">>

Request(n, svc, method, endpoint, payload) ==
    [call |-> n, svc |-> svc, method |-> method, url |-> endpoint, payload |-> payload]

\* The part of a tool invocation outside its outcome.
Idle ==
    [ tool |-> "none", args |-> << >>, pc |-> "idle",
      ncalls |-> 0,           \* calls of make_*_request entered so far
      http |-> << >>,         \* the HTTP requests issued, in order
      statuses |-> << >>,     \* how each issued request ended
      rets |-> << >>,         \* what each completed transport call returned
      issue_details |-> None, \* get_jira_ticket's local
      subtask_details |-> << >>,
      pos |-> 0,              \* subtasks already handled by the loop of line 459
      outcome |-> [t |-> "pending"] ]

Return(text) == [t |-> "return", text |-> text]

\* str(e) of the exceptions the model raises.
ExcText(e) ==
    CASE e = "NameError"      -> <<"name is not defined">>
      [] e = "AttributeError" -> <<"object has no attribute 'get'">>
      [] e = "KeyError"       -> <<"'version'">>
      [] OTHER                -> <<"unsupported operand">>

\* What an exception raised inside a tool's body becomes at the tool's
\* boundary: the two page tools wrap their body in try/except Exception
\* (lines 488-503, 534-585); get_jira_ticket (lines 436-464) has no handler.
Boundary(tool, e) ==
    CASE tool = "create_confluence_page" ->
            Return(<<"Error creating page: ">> \o ExcText(e))
      [] tool = "create_test_plan_from_jira" ->
            Return(<<"Error creating or updating test plan page: ">> \o ExcText(e))
      [] OTHER -> Raise(e)

Finish(r, outcome) == [r EXCEPT !.pc = "done", !.outcome = outcome]

\* The start of make_jira_request / make_confluence_request up to the await
\* of the HTTP exchange: create_auth_headers reads the credential globals
\* (lines 159, 193) outside the try block, so with the globals of lines
\* 49-51 left undefined the call raises NameError before any request.
Send(r, svc, method, endpoint, payload, nextpc) ==
    IF ~creds
    THEN Finish([r EXCEPT !.ncalls = @ + 1], Boundary(r.tool, "NameError"))
    ELSE [r EXCEPT !.ncalls = @ + 1,
                   !.http = Append(@, Request(r.ncalls + 1, svc, method, endpoint, payload)),
                   !.pc = nextpc]

\* The end of a transport call: the exchange's status and the value returned.
Received(r, status, body) ==
    [r EXCEPT !.statuses = Append(@, status),
              !.rets = Append(@, TransportReturn(status, body))]

---------------------------------------------------------------------------
(* Jira data processing: fetch_jira_issue_details, fetch_subtask_details,  *)
(* format_jira_issue_output.                                               *)

IssueEndpoint(key) == JIRA_BASE_URL \o <<"/rest/api/3/issue/">> \o key

\* The first raised value among vs, or None when none of them raised.
RECURSIVE FirstRaise(_)
FirstRaise(vs) ==
    IF vs = << >> THEN None
    ELSE IF IsRaise(Head(vs)) THEN Head(vs) ELSE FirstRaise(Tail(vs))

\* fetch_jira_issue_details answering an absent response with an error
\* record, as fetch_subtask_details does (lines 270-272), instead of None.
MutFetchIssueDetails(issue_key, data) ==
    IF ~Truthy(data)
    THEN Obj([key |-> Str(issue_key), error |-> Str(<<"Unable to fetch issue details">>)])
    ELSE LET fields == Get(data, "fields", EmptyObj)
             summary == Get(fields, "summary", Str(<<"No summary">>))
         IN  IF IsRaise(fields) THEN fields
             ELSE IF IsRaise(summary) THEN summary
             ELSE Obj([key |-> Str(issue_key), summary |-> summary])

\* Lines 236-251, given what make_jira_request returned: None, the details
\* record, or the exception raised while reading the fields.
fetch_jira_issue_details(issue_key, data) ==
    IF ~Truthy(data) THEN None
    ELSE LET fields == Get(data, "fields", EmptyObj)
             summary == Get(fields, "summary", Str(<<"No summary">>))
             status == extract_jira_field_value(Get(fields, "status", None), "name")
             reporter == extract_jira_field_value(Get(fields, "reporter", None), "displayName")
             description == extract_description_from_jira(Get(fields, "description", None))
             subtasks == Get(fields, "subtasks", Lst(<< >>))
         IN  IF IsRaise(fields) THEN fields
             ELSE IF IsRaise(summary) THEN summary
             ELSE Obj([ key |-> Str(issue_key), summary |-> summary, status |-> status,
                        reporter |-> reporter, description |-> description,
                        subtasks |-> subtasks ])

NoKeyRecord == Obj([error |-> Str(<<"No subtask key found">>)])

\* Lines 268-279, given the key and what make_jira_request returned.
SubtaskRecord(sub_key, sub_data) ==
    IF ~Truthy(sub_data)
    THEN Obj([key |-> sub_key, error |-> Str(<<"Unable to fetch subtask details">>)])
    ELSE LET sub_fields == Get(sub_data, "fields", EmptyObj)
             summary == Get(sub_fields, "summary", Str(<<"No summary">>))
         IN  IF IsRaise(sub_fields) THEN sub_fields
             ELSE IF IsRaise(summary) THEN summary
             ELSE Obj([ key |-> sub_key, summary |-> summary,
                        status |-> extract_jira_field_value(
                                       Get(sub_fields, "status", None), "name"),
                        reporter |-> extract_jira_field_value(
                                       Get(sub_fields, "reporter", None), "displayName"),
                        description |-> extract_description_from_jira(
                                       Get(sub_fields, "description", None)) ])

EntryMark == "\n  - "

\* One sub-issue entry of the report (lines 303-311).
FormatSubtask(subtask) ==
    IF "error" \in DOMAIN subtask.fields
    THEN <<EntryMark>> \o ToText(Get(subtask, "key", Str(<<"Unknown">>)))
             \o <<": ">> \o ToText(subtask.fields.error) \o <<"\n">>
    ELSE <<EntryMark>> \o ToText(subtask.fields.key) \o <<": ">>
             \o ToText(subtask.fields.summary)
             \o <<"\n    Status: ">> \o ToText(subtask.fields.status)
             \o <<"\n    Reporter: ">> \o ToText(subtask.fields.reporter)
             \o <<"\n    Description: ">> \o ToText(subtask.fields.description) \o <<"\n">>

RECURSIVE FormatSubtasks(_)
FormatSubtasks(subtask_details) ==
    IF subtask_details = << >> THEN << >>
    ELSE FormatSubtask(Head(subtask_details)) \o FormatSubtasks(Tail(subtask_details))

format_jira_issue_output(issue_details, subtask_details) ==
    <<"\nJira Ticket: ">> \o ToText(issue_details.fields.key)
        \o <<"\nSummary: ">> \o ToText(issue_details.fields.summary)
        \o <<"\nStatus: ">> \o ToText(issue_details.fields.status)
        \o <<"\nReporter: ">> \o ToText(issue_details.fields.reporter)
        \o <<"\nDescription: ">> \o ToText(issue_details.fields.description) \o <<"\n">>
        \o ( IF subtask_details # << >>
             THEN <<"\nChild Stories/Subtasks:\n">> \o FormatSubtasks(subtask_details)
             ELSE <<"\nNo child stories or subtasks found.\n">> )

---------------------------------------------------------------------------
(* get_jira_ticket                                                         *)

\* The loop of lines 459-461 from subtask r.pos + 1 on, up to the next await
\* of a sub-issue fetch (fetch_subtask_details, lines 263-267), the
\* exception that ends it, or the formatted report of line 464.
RECURSIVE SubtaskLoop(_, _)
SubtaskLoop(r, subtasks) ==
    IF r.pos >= Len(subtasks)
    THEN Finish(r, Return(format_jira_issue_output(r.issue_details, r.subtask_details)))
    ELSE LET subtask_data == subtasks[r.pos + 1]
             sub_key == Get(subtask_data, "key", None)
         IN  IF IsRaise(sub_key) THEN Finish(r, Boundary(r.tool, sub_key.exc))
             ELSE IF ~Truthy(sub_key)
             THEN SubtaskLoop([r EXCEPT !.pos = @ + 1,
                                        !.subtask_details = Append(@, NoKeyRecord)],
                              subtasks)
             ELSE Send(r, "jira", "GET", IssueEndpoint(ToText(sub_key)), None, "subtask")

\* What `for subtask_data in issue_details.get("subtasks", [])` iterates.
SubtasksOf(issue_details) == Iter(issue_details.fields.subtasks)

Invs == 1..NumInv

IssueKeys == {<< >>, <<"ABC-2">>}

\* get_jira_ticket(issue_key) up to its first await (lines 450-453, 235).
InvokeGetJiraTicket(i) ==
    /\ inv[i].pc = "idle"
    /\ \E issue_key \in IssueKeys :
          inv' = [inv EXCEPT ![i] =
                    Send([inv[i] EXCEPT !.tool = "get_jira_ticket",
                                        !.args = [issue_key |-> issue_key]],
                         "jira", "GET", IssueEndpoint(issue_key), None, "issue")]
    /\ UNCHANGED <<doc, extracted, creds, wiki>>

\* The sub-issue references a parent issue may declare.
SubRefs ==
    { Obj([key |-> Str(<<"ABC-3">>)]),
      Obj([key |-> Str(<<"ABC-4">>)]),
      Obj([id |-> Str(<<"10003">>)]),       \* a reference without a key
      Str(<<"ABC-5">>) }                   \* a reference that is not an object

IssueFields(subtasks) ==
    Obj([ summary |-> Str(<<"Checkout fails">>),
          status |-> Obj([name |-> Str(<<"Open">>)]),
          reporter |-> None,
          description |-> Document(Lst(<<Paragraph(Lst(<<TextNode(Str(<<"a">>))>>))>>)),
          subtasks |-> subtasks ])

IssueJson(fields) == Obj([id |-> Str(<<"10001">>), fields |-> fields])

\* The JSON bodies a 2xx response of the issue endpoint may carry.
IssueBodies ==
    {IssueJson(IssueFields(Lst(q))) : q \in SeqsUpTo(SubRefs, MaxSubs)}
        \cup { IssueJson(IssueFields(None)),      \* "subtasks": null
               IssueJson(None),                   \* "fields": null
               IssueJson(Str(<<"x">>)),           \* "fields" is a string
               Obj([id |-> Str(<<"10001">>)]),    \* no "fields"
               EmptyObj }

SubIssueBodies ==
    { IssueJson(Obj([ summary |-> Str(<<"Sub">>), status |-> Str(<<"Done">>) ])),
      IssueJson(None) }

Last(q) == q[Len(q)]

\* get_jira_ticket from the return of the parent fetch to the next await
\* or the return (lines 236-251, 454-464).
IssueReply(i) ==
    /\ inv[i].pc = "issue"
    /\ inv[i].tool = "get_jira_ticket"
    /\ \E status \in Statuses, body \in IssueBodies :
          LET r == Received(inv[i], status, body)
              data == Last(r.rets)
              issue_details == fetch_jira_issue_details(r.args.issue_key, data)
          IN  inv' = [inv EXCEPT ![i] =
                IF IsRaise(data) THEN Finish(r, Boundary(r.tool, data.exc))
                ELSE IF IsRaise(issue_details)
                THEN Finish(r, Boundary(r.tool, issue_details.exc))
                ELSE IF ~Truthy(issue_details)
                THEN Finish(r, Return(<<"Unable to fetch Jira ticket ">>
                                        \o r.args.issue_key \o <<".">>))
                ELSE LET subtasks == SubtasksOf(issue_details)
                     IN  IF IsRaise(subtasks) THEN Finish(r, Boundary(r.tool, subtasks.exc))
                         ELSE SubtaskLoop([r EXCEPT !.issue_details = issue_details],
                                          subtasks.items)]
    /\ UNCHANGED <<doc, extracted, creds, wiki>>

\* From the return of a sub-issue fetch (lines 268-279, 461) to the next
\* await or the return.
SubtaskReply(i) ==
    /\ inv[i].pc = "subtask"
    /\ \E status \in Statuses, body \in SubIssueBodies :
          LET r == Received(inv[i], status, body)
              sub_data == Last(r.rets)
              subtasks == SubtasksOf(r.issue_details).items
              sub_key == Get(subtasks[r.pos + 1], "key", None)
              subtask_info == SubtaskRecord(sub_key, sub_data)
          IN  inv' = [inv EXCEPT ![i] =
                IF IsRaise(sub_data) THEN Finish(r, Boundary(r.tool, sub_data.exc))
                ELSE IF IsRaise(subtask_info)
                THEN Finish(r, Boundary(r.tool, subtask_info.exc))
                ELSE SubtaskLoop([r EXCEPT !.pos = @ + 1,
                                           !.subtask_details = Append(@, subtask_info)],
                                 subtasks)]
    /\ UNCHANGED <<doc, extracted, creds, wiki>>

NoPage == [exists |-> FALSE, id |-> << >>, version |-> 0, body |-> << >>]

InitTools ==
    /\ creds \in BOOLEAN
    /\ inv = [i \in Invs |-> Idle]

InitTicket ==
    /\ doc = None
    /\ extracted = << >>
    /\ wiki = NoPage
    /\ InitTools

NextTicket ==
    \/ InvokeGetJiraTicket(1)
    \/ IssueReply(1)
    \/ SubtaskReply(1)

SpecTicket == InitTicket /\ [][NextTicket]_vars

---------------------------------------------------------------------------
(* Confluence page management.                                             *)

\* The three endpoints (lines 338, 373, 411) under the base URL (line 192).
SearchEndpoint == CONFLUENCE_BASE_URL \o <<"/rest/api/content">>
CreateEndpoint == CONFLUENCE_BASE_URL \o <<"/rest/api/content/">>
UpdateEndpoint(page_id) == CONFLUENCE_BASE_URL \o <<"/rest/api/content/">> \o page_id

\* The query of find_existing_confluence_page (lines 332-338).
SearchParams(space_key, title) ==
    [title |-> title, spaceKey |-> space_key, expand |-> <<"version">>]

MutFindExisting(search_data) ==
    LET results == Get(search_data, "results", None)
    IN  IF IsRaise(results) THEN results
        ELSE IF ~Truthy(results) THEN None
        ELSE IF results.t = "list" THEN results.items[1]
        ELSE Raise("KeyError")

\* Lines 340-343, given what the search call returned: the first result,
\* None, or the exception raised.
find_existing_confluence_page(search_data) ==
    IF ~Truthy(search_data) THEN None
    ELSE LET results == Get(search_data, "results", None)
         IN  IF IsRaise(results) THEN results
             ELSE IF ~Truthy(results) THEN None
             ELSE IF results.t = "list" THEN results.items[1]
             ELSE Raise("KeyError")

\* The payload of create_new_confluence_page (lines 361-371).
PageData(space_key, title, content) ==
    [ type |-> <<"page">>, title |-> title, space |-> [key |-> space_key],
      body |-> [storage |-> [value |-> content, representation |-> <<"storage">>]] ]

MutNextVersion(current_version) == current_version

\* The version number an update carries (line 407).
NextVersion(current_version) == current_version + 1

\* The payload of update_existing_confluence_page (lines 395-409).
UpdateData(page_id, space_key, title, content, current_version) ==
    [ id |-> page_id, type |-> <<"page">>, title |-> title, space |-> [key |-> space_key],
      body |-> [storage |-> [value |-> content, representation |-> <<"storage">>]],
      version |-> [number |-> NextVersion(current_version)] ]

MutPageUrl(base_url, web_ui) == web_ui \o base_url

\* f"{base_url}{web_ui}" (line 426).
PageUrl(base_url, web_ui) == base_url \o web_ui

\* Lines 423-426: the URL text, or the exception raised.
extract_page_url(response_data) ==
    LET links == Get(response_data, "_links", EmptyObj)
        base_url == Get(links, "base", Str(<< >>))
        web_ui == Get(links, "webui", Str(<< >>))
    IN  IF IsRaise(links) THEN links
        ELSE IF IsRaise(base_url) THEN base_url
        ELSE Str(PageUrl(ToText(base_url), ToText(web_ui)))

---------------------------------------------------------------------------
(* The remote wiki: one page slot for the (space, title) addressed.        *)

ExistingId == <<"101">>
CreatedId == <<"202">>

WebUi(id) == <<"/spaces/SPACE/pages/">> \o id

\* The JSON of a page as the content endpoints return it; a response may
\* come without the _links object.
PageJson(page, links) ==
    IF links
    THEN Obj([ id |-> Str(page.id), version |-> Obj([number |-> Num(page.version)]),
               _links |-> Obj([base |-> Str(CONFLUENCE_BASE_URL),
                               webui |-> Str(WebUi(page.id))]) ])
    ELSE Obj([ id |-> Str(page.id), version |-> Obj([number |-> Num(page.version)]) ])

\* The bodies a 2xx search response may carry for the current page slot.
SearchBodies ==
    IF wiki.exists
    THEN { Obj([results |-> Lst(<<PageJson(wiki, TRUE)>>), size |-> Num(1)]),
           Obj([results |-> Lst(<<Obj([id |-> Str(wiki.id)])>>), size |-> Num(1)]) }
    ELSE { Obj([results |-> Lst(<< >>), size |-> Num(0)]) }

\* The remote's rule for an update: the page exists under that id and the
\* request carries its current version number plus one.
UpdateAccepted(req) ==
    /\ wiki.exists
    /\ req.payload.id = wiki.id
    /\ req.payload.version.number = wiki.version + 1

\* The remote's rule for a creation: no page of that title in the space.
CreateAccepted(req) == ~wiki.exists

Updated(req) ==
    [wiki EXCEPT !.version = req.payload.version.number,
                 !.body = req.payload.body.storage.value]

Created(req) ==
    [exists |-> TRUE, id |-> CreatedId, version |-> 1,
     body |-> req.payload.body.storage.value]

---------------------------------------------------------------------------
(* create_confluence_page and create_test_plan_from_jira                   *)

Spaces == {<< >>, <<"SPACE">>}
Titles == {<< >>, <<"Test Plan for ABC-1">>}
Bodies == {<< >>, <<"<p>plan</p>">>}
PlanIssueKeys == {<< >>, <<"ABC-1">>}

\* all([...]) over str arguments (lines 490, 536).
AllGiven(values) == \A k \in DOMAIN values : values[k] # << >>

\* create_confluence_page up to its first await (lines 486-494, 361-373, 192-201).
InvokeCreateConfluencePage(i) ==
    /\ inv[i].pc = "idle"
    /\ \E space_key \in Spaces, title \in Titles, body \in Bodies :
          LET r == [inv[i] EXCEPT !.tool = "create_confluence_page",
                                  !.args = [space_key |-> space_key, title |-> title,
                                            body |-> body]]
          IN  inv' = [inv EXCEPT ![i] =
                IF ~AllGiven(<<space_key, title, body>>)
                THEN Finish(r, Return(<<"Error: space_key, title, and body are all required">>))
                ELSE Send(r, "wiki", "POST", CreateEndpoint,
                          PageData(space_key, title, body), "post")]
    /\ UNCHANGED <<doc, extracted, creds, wiki>>

\* create_test_plan_from_jira up to its first await (lines 532-540, 235, 158-164).
InvokeCreateTestPlan(i) ==
    /\ inv[i].pc = "idle"
    /\ \E issue_key \in PlanIssueKeys, space_key \in Spaces, title \in Titles,
          test_plan \in Bodies :
          LET r == [inv[i] EXCEPT !.tool = "create_test_plan_from_jira",
                                  !.args = [issue_key |-> issue_key,
                                            confluence_space_key |-> space_key,
                                            confluence_title |-> title,
                                            test_plan |-> test_plan]]
          IN  inv' = [inv EXCEPT ![i] =
                IF ~AllGiven(<<issue_key, space_key, title, test_plan>>)
                THEN Finish(r, Return(<<"Error: All parameters (issue_key, confluence_space_key, confluence_title, test_plan) are required">>))
                ELSE Send(r, "jira", "GET", IssueEndpoint(issue_key), None, "issue")]
    /\ UNCHANGED <<doc, extracted, creds, wiki>>

\* The issue bodies the validation fetch of create_test_plan_from_jira is
\* answered with: the tool reads nothing of the issue but its summary.
PlanIssueBodies == {IssueJson(IssueFields(Lst(<< >>))), IssueJson(None), EmptyObj}

\* create_test_plan_from_jira from the return of the Jira fetch to the await
\* of the search (lines 236-251, 541-548, 332-338).
ValidationReply(i) ==
    /\ inv[i].pc = "issue"
    /\ inv[i].tool = "create_test_plan_from_jira"
    /\ \E status \in Statuses, body \in PlanIssueBodies :
          LET r == Received(inv[i], status, body)
              data == Last(r.rets)
              issue_details == fetch_jira_issue_details(r.args.issue_key, data)
          IN  inv' = [inv EXCEPT ![i] =
                IF IsRaise(data) THEN Finish(r, Boundary(r.tool, data.exc))
                ELSE IF IsRaise(issue_details)
                THEN Finish(r, Boundary(r.tool, issue_details.exc))
                ELSE IF ~Truthy(issue_details)
                THEN Finish(r, Return(<<"Unable to fetch Jira ticket ">>
                                        \o r.args.issue_key \o <<" for validation.">>))
                ELSE Send(r, "wiki", "GET", SearchEndpoint,
                          SearchParams(r.args.confluence_space_key, r.args.confluence_title),
                          "search")]
    /\ UNCHANGED <<doc, extracted, creds, wiki>>

\* The update branch up to the await of the PUT (lines 552-559, 395-411):
\* the invocation after the PUT is issued, or ended by an exception.
UpdateBranch(r, existing_page) ==
    LET page_id == Index(existing_page, "id")
        version == Index(existing_page, "version")
        current_version == IF IsRaise(version) THEN version ELSE Index(version, "number")
        raised == FirstRaise(<<page_id, current_version>>)
    IN  IF IsRaise(raised) THEN Finish(r, Boundary(r.tool, raised.exc))
        ELSE IF current_version.t # "num" THEN Finish(r, Boundary(r.tool, "TypeError"))
        ELSE Send(r, "wiki", "PUT", UpdateEndpoint(ToText(page_id)),
                  UpdateData(ToText(page_id), r.args.confluence_space_key,
                             r.args.confluence_title, r.args.test_plan,
                             current_version.n),
                  "put")

\* The create branch up to the await of the POST (lines 569-573, 361-373).
CreateBranch(r) ==
    Send(r, "wiki", "POST", CreateEndpoint,
         PageData(r.args.confluence_space_key, r.args.confluence_title, r.args.test_plan),
         "post")

\* `if existing_page:` (line 550).
ChooseBranch(r, existing_page) ==
    IF IsRaise(existing_page) THEN Finish(r, Boundary(r.tool, existing_page.exc))
    ELSE IF Truthy(existing_page) THEN UpdateBranch(r, existing_page)
    ELSE CreateBranch(r)

\* From the return of the search to the await of the PUT or of the POST
\* (lines 340-343, 550-573).
SearchReply(i) ==
    /\ inv[i].pc = "search"
    /\ \E status \in Statuses, body \in SearchBodies :
          LET r == Received(inv[i], status, body)
              search_data == Last(r.rets)
          IN  inv' = [inv EXCEPT ![i] =
                IF IsRaise(search_data) THEN Finish(r, Boundary(r.tool, search_data.exc))
                ELSE ChooseBranch(r, find_existing_confluence_page(search_data))]
    /\ UNCHANGED <<doc, extracted, creds, wiki>>

MutWriteResult(r, response_data, ok, failed) ==
    IF IsRaise(response_data) THEN Finish(r, Boundary(r.tool, response_data.exc))
    ELSE LET page_url == extract_page_url(response_data)
         IN  IF IsRaise(page_url) THEN Finish(r, Boundary(r.tool, page_url.exc))
             ELSE Finish(r, Return(ok \o ToText(page_url)))

\* `if response_data:` and the two returns after a write (lines 496-500,
\* 561-565, 575-579).
WriteResult(r, response_data, ok, failed) ==
    IF IsRaise(response_data) THEN Finish(r, Boundary(r.tool, response_data.exc))
    ELSE IF Truthy(response_data)
    THEN LET page_url == extract_page_url(response_data)
         IN  IF IsRaise(page_url) THEN Finish(r, Boundary(r.tool, page_url.exc))
             ELSE Finish(r, Return(ok \o ToText(page_url)))
    ELSE Finish(r, Return(failed))

UpdatedOk == <<"Test plan page updated successfully: ">>
UpdateFailed == <<"Failed to update existing test plan page">>
PlanCreatedOk == <<"Test plan page created successfully: ">>
PlanCreateFailed == <<"Failed to create new test plan page">>
PageCreatedOk == <<"Page created successfully: ">>
PageCreateFailed == <<"Failed to create page: API request failed">>

\* The exchange of a write with the remote: a 2xx response only when the
\* remote accepts the write, which it then applies; a timed-out exchange of
\* an acceptable write may or may not have been applied.
Exchange(accepted, after, status, applied) ==
    /\ status = "2xx" => accepted /\ applied
    /\ applied => accepted /\ status \in {"2xx", "timeout"}
    /\ wiki' = IF applied THEN after ELSE wiki

\* From the return of the PUT to the tool's return (lines 212-219, 561-565).
PutReply(i) ==
    /\ inv[i].pc = "put"
    /\ \E status \in Statuses, applied \in BOOLEAN, links \in BOOLEAN :
          LET req == Last(inv[i].http)
              r == Received(inv[i], status, PageJson(Updated(req), links))
          IN  /\ Exchange(UpdateAccepted(req), Updated(req), status, applied)
              /\ status # "2xx" => links
              /\ inv' = [inv EXCEPT ![i] =
                            WriteResult(r, Last(r.rets), UpdatedOk, UpdateFailed)]
    /\ UNCHANGED <<doc, extracted, creds>>

\* From the return of the POST to the tool's return (lines 212-219,
\* 496-500, 575-579).
PostReply(i) ==
    /\ inv[i].pc = "post"
    /\ \E status \in Statuses, applied \in BOOLEAN, links \in BOOLEAN :
          LET req == Last(inv[i].http)
              r == Received(inv[i], status, PageJson(Created(req), links))
          IN  /\ Exchange(CreateAccepted(req), Created(req), status, applied)
              /\ status # "2xx" => links
              /\ inv' = [inv EXCEPT ![i] =
                    IF r.tool = "create_confluence_page"
                    THEN WriteResult(r, Last(r.rets), PageCreatedOk, PageCreateFailed)
                    ELSE WriteResult(r, Last(r.rets), PlanCreatedOk, PlanCreateFailed)]
    /\ UNCHANGED <<doc, extracted, creds>>

Init ==
    /\ doc = None
    /\ extracted = << >>
    /\ wiki \in {NoPage} \cup
                { [exists |-> TRUE, id |-> ExistingId, version |-> v, body |-> <<"<p>old</p>">>]
                    : v \in 1..MaxVersion }
    /\ InitTools

Next ==
    \E i \in Invs :
        \/ InvokeCreateConfluencePage(i)
        \/ InvokeCreateTestPlan(i)
        \/ ValidationReply(i)
        \/ SearchReply(i)
        \/ PutReply(i)
        \/ PostReply(i)

Spec == Init /\ [][Next]_vars

---------------------------------------------------------------------------
(* The extractor applied to a document, and applied again to the same one. *)

InitExtract ==
    /\ doc \in Documents
    /\ extracted = << >>
    /\ wiki = NoPage
    /\ creds = FALSE
    /\ inv = [i \in Invs |-> Idle]

Extract ==
    /\ Len(extracted) < MaxCalls
    /\ extracted' = Append(extracted, extract_description_from_jira(doc))
    /\ UNCHANGED <<doc, creds, wiki, inv>>

NextExtract == Extract

SpecExtract == InitExtract /\ [][NextExtract]_vars

---------------------------------------------------------------------------
(* Properties of the page tools (Spec).                                    *)

PlanInvs == {i \in Invs : inv[i].tool = "create_test_plan_from_jira"}

\* The requests an invocation sent to the wiki, in order.
WikiRequests(i) == SelectSeq(inv[i].http, LAMBDA q : q.svc = "wiki")

\* The search of invocation i has returned (the second transport call of
\* the tool, after the Jira fetch).
Searched(i) == i \in PlanInvs /\ Len(inv[i].rets) >= 2

\* The search returned a first result carrying an id and a version number.
FoundPage(i) ==
    /\ Searched(i)
    /\ inv[i].rets[2].t = "obj"
    /\ "results" \in DOMAIN inv[i].rets[2].fields
    /\ inv[i].rets[2].fields.results.items # << >>
    /\ "version" \in DOMAIN inv[i].rets[2].fields.results.items[1].fields

FoundId(i) == inv[i].rets[2].fields.results.items[1].fields.id.s
FoundVersion(i) == inv[i].rets[2].fields.results.items[1].fields.version.fields.number.n

\* The search returned an empty result list.
FoundNothing(i) ==
    /\ Searched(i)
    /\ inv[i].rets[2].t = "obj"
    /\ "results" \in DOMAIN inv[i].rets[2].fields
    /\ inv[i].rets[2].fields.results.items = << >>

\* The search returned absent.
SearchAbsent(i) == Searched(i) /\ inv[i].rets[2] = None

\* The write (the third transport call) has returned.
Written(i) == Len(inv[i].rets) = 3

\* _links.base followed by _links.webui of a page response.
UrlOf(response) ==
    IF "_links" \in DOMAIN response.fields
    THEN response.fields._links.fields.base.s \o response.fields._links.fields.webui.s
    ELSE << >>

IsSearchRequest(q, i) ==
    /\ q.method = "GET"
    /\ q.url = CONFLUENCE_BASE_URL \o <<"/rest/api/content">>
    /\ q.payload = [ title |-> inv[i].args.confluence_title,
                     spaceKey |-> inv[i].args.confluence_space_key,
                     expand |-> <<"version">> ]

IsCreateRequest(q, i) ==
    /\ q.method = "POST"
    /\ q.payload.type = <<"page">>
    /\ q.payload.title = inv[i].args.confluence_title
    /\ q.payload.space.key = inv[i].args.confluence_space_key
    /\ q.payload.body.storage.value = inv[i].args.test_plan

\* C1: in the update branch of create_test_plan_from_jira (the search
\* returned a first result with id P and version V) the wiki requests of the
\* invocation are exactly one GET search followed by one PUT to
\* /rest/api/content/P carrying version V + 1 and the caller's body, with no
\* POST; a PUT that returned a result yields the success message with the
\* page URL, a PUT that returned absent yields the failure message without
\* a URL.
C1_UpdateBranch ==
    \A i \in Invs : FoundPage(i) =>
        LET w == WikiRequests(i)
        IN  /\ AllGiven(inv[i].args)
            /\ Len(w) = 2
            /\ IsSearchRequest(w[1], i)
            /\ w[2].method = "PUT"
            /\ w[2].url = CONFLUENCE_BASE_URL \o <<"/rest/api/content/">> \o FoundId(i)
            /\ w[2].payload.version.number = FoundVersion(i) + 1
            /\ w[2].payload.body.storage.value = inv[i].args.test_plan
            /\ Written(i) =>
                  /\ inv[i].pc = "done"
                  /\ inv[i].rets[3] # None =>
                        inv[i].outcome =
                            Return(<<"Test plan page updated successfully: ">>
                                       \o UrlOf(inv[i].rets[3]))
                  /\ inv[i].rets[3] = None =>
                        inv[i].outcome = Return(<<"Failed to update existing test plan page">>)

\* An update of a page found at version 2 succeeded and returned its URL.
C1_Witness ==
    \E i \in Invs :
        /\ FoundPage(i) /\ FoundVersion(i) = 2 /\ Written(i)
        /\ WikiRequests(i)[2].payload.version.number = 3
        /\ inv[i].outcome =
              Return(<<"Test plan page updated successfully: ">>
                         \o CONFLUENCE_BASE_URL \o <<"/spaces/SPACE/pages/">> \o FoundId(i))

\* C2: in the create branch of create_test_plan_from_jira (the search
\* returned an empty result list) the invocation issues exactly one POST
\* (type "page", the given title, space key and body) and no PUT, and when
\* the POST returned a result the tool returns the success message with the
\* URL built as _links.base followed by _links.webui.
C2_CreateBranch ==
    \A i \in Invs : FoundNothing(i) =>
        LET w == WikiRequests(i)
        IN  /\ AllGiven(inv[i].args)
            /\ Len(w) = 2
            /\ IsSearchRequest(w[1], i)
            /\ IsCreateRequest(w[2], i)
            /\ (Written(i) /\ inv[i].rets[3] # None) =>
                  /\ inv[i].pc = "done"
                  /\ inv[i].outcome =
                        Return(<<"Test plan page created successfully: ">>
                                   \o UrlOf(inv[i].rets[3]))

\* A page was created after an empty search and its URL returned.
C2_Witness ==
    \E i \in Invs :
        /\ FoundNothing(i) /\ Written(i)
        /\ wiki.exists /\ wiki.body = inv[i].args.test_plan
        /\ inv[i].outcome =
              Return(<<"Test plan page created successfully: ">>
                         \o CONFLUENCE_BASE_URL \o <<"/spaces/SPACE/pages/">> \o CreatedId)

\* C3: when the search of create_test_plan_from_jira returns absent the
\* invocation treats the page as not found and issues the creation POST;
\* when that POST returns absent too, the tool returns the failure message,
\* which carries no URL and is not a success message.
C3_SearchFailure ==
    \A i \in Invs : SearchAbsent(i) =>
        LET w == WikiRequests(i)
        IN  /\ Len(w) = 2
            /\ IsSearchRequest(w[1], i)
            /\ IsCreateRequest(w[2], i)
            /\ (Written(i) /\ inv[i].rets[3] = None) =>
                  /\ inv[i].pc = "done"
                  /\ inv[i].outcome = Return(<<"Failed to create new test plan page">>)

\* The search and the creation both failed.
C3_Witness ==
    \E i \in Invs :
        /\ SearchAbsent(i) /\ Written(i) /\ inv[i].rets[3] = None
        /\ inv[i].statuses[2] = "connect_error"
        /\ inv[i].outcome = Return(<<"Failed to create new test plan page">>)

\* C6: a call of make_jira_request or make_confluence_request issues at
\* most one HTTP request (the requests of an invocation belong to distinct
\* calls, in call order, none repeated after a failure), and an exchange
\* that ends in a non-2xx status, a connection error or a timeout makes the
\* call return None: it never raises.
C6_TransportAbsentOnFailure ==
    \A i \in Invs :
        /\ Len(inv[i].http) <= inv[i].ncalls
        /\ \A k \in DOMAIN inv[i].http : inv[i].http[k].call = k
        /\ Len(inv[i].statuses) = Len(inv[i].rets)
        /\ Len(inv[i].http) - Len(inv[i].rets) \in {0, 1}
        /\ \A k \in DOMAIN inv[i].rets :
              /\ ~IsRaise(inv[i].rets[k])
              /\ inv[i].statuses[k] \in Failures => inv[i].rets[k] = None
        /\ (inv[i].pc = "done" /\ inv[i].statuses # << >>
                /\ Last(inv[i].statuses) \in Failures)
              => Len(inv[i].http) = Len(inv[i].statuses)

\* A Jira fetch that ended in a non-2xx status and a PUT that timed out
\* each returned None to their callers.
C6_Witness ==
    \E i, j \in Invs :
        /\ inv[i].statuses = <<"non2xx">> /\ inv[i].rets = <<None>>
        /\ inv[i].http[1].svc = "jira" /\ inv[i].pc = "done"
        /\ Len(inv[j].http) = 3 /\ inv[j].http[3].method = "PUT"
        /\ Written(j) /\ inv[j].statuses[3] = "timeout" /\ inv[j].rets[3] = None

\* The PUT requests of an invocation.
Puts(i) == SelectSeq(inv[i].http, LAMBDA q : q.method = "PUT")

UpdateSucceeded(i) ==
    /\ inv[i].outcome.t = "return"
    /\ Len(inv[i].outcome.text) >= 1
    /\ inv[i].outcome.text[1] = "Test plan page updated successfully: "

\* C10: under any interleaving of create_test_plan_from_jira invocations on
\* the same space and title, every PUT carries the version that the same
\* invocation's own search read, plus one; an invocation whose PUT the
\* remote rejects returns the failure message and issues nothing after the
\* PUT; and of two invocations that read the same version at most one
\* reports a successful update.
C10_VersionPerInvocation ==
    /\ \A i \in Invs : \A k \in DOMAIN Puts(i) :
          /\ FoundPage(i)
          /\ Puts(i)[k].payload.version.number = FoundVersion(i) + 1
    /\ \A i \in Invs :
          (FoundPage(i) /\ Written(i) /\ inv[i].statuses[3] # "2xx") =>
              /\ inv[i].pc = "done"
              /\ inv[i].outcome = Return(<<"Failed to update existing test plan page">>)
              /\ Len(inv[i].http) = 3
    /\ \A i, j \in Invs :
          (i # j /\ FoundPage(i) /\ FoundPage(j) /\ FoundVersion(i) = FoundVersion(j))
              => ~(UpdateSucceeded(i) /\ UpdateSucceeded(j))

\* Two invocations read the same version; the remote accepted the PUT of
\* one and rejected the stale PUT of the other.
C10_Witness ==
    \E i, j \in Invs :
        /\ i # j /\ FoundPage(i) /\ FoundPage(j)
        /\ FoundVersion(i) = FoundVersion(j)
        /\ UpdateSucceeded(i)
        /\ Written(j) /\ inv[j].statuses[3] = "non2xx"
        /\ wiki.version = FoundVersion(i) + 1
        /\ inv[j].outcome = Return(<<"Failed to update existing test plan page">>)

\* The Jira fetch of invocation i (the first transport call of the tool)
\* has returned.
JiraReturned(i) == i \in PlanInvs /\ Len(inv[i].rets) >= 1

\* ... and what it returned is absent (`if not data`, `if not issue_details`).
JiraAbsent(i) == JiraReturned(i) /\ ~Truthy(inv[i].rets[1])

UnableToFetch(i) ==
    Return(<<"Unable to fetch Jira ticket ">> \o inv[i].args.issue_key
              \o <<" for validation.">>)

\* The step is one of invocation i.
StepOf(i) == inv'[i] # inv[i]

\* C11: in any invocation of create_test_plan_from_jira the first request
\* is the Jira fetch, and a request to the wiki (search, POST or PUT) is in
\* the log only when that fetch has returned a result; an invocation whose
\* Jira fetch returned absent has ended with "Unable to fetch Jira ticket
\* <key> for validation." having sent the wiki nothing, and no step of such
\* an invocation creates or changes the page.
C11_JiraGatesWiki ==
    /\ [](\A i \in PlanInvs :
            /\ WikiRequests(i) # << >> =>
                  /\ JiraReturned(i) /\ Truthy(inv[i].rets[1])
                  /\ inv[i].http[1].svc = "jira"
                  /\ \A k \in DOMAIN WikiRequests(i) : WikiRequests(i)[k].call >= 2
            /\ JiraAbsent(i) =>
                  /\ inv[i].pc = "done"
                  /\ inv[i].outcome = UnableToFetch(i)
                  /\ WikiRequests(i) = << >>
                  /\ Len(inv[i].http) = 1)
    /\ [][\A i \in Invs :
            (StepOf(i) /\ (JiraAbsent(i))') => wiki' = wiki]_vars

\* One invocation's Jira fetch failed and it ended with the message, sending
\* the wiki nothing, while another, whose fetch returned the issue, went on
\* to the wiki and changed the page.
C11_Witness ==
    \E i, j \in Invs :
        /\ i # j
        /\ JiraAbsent(i) /\ inv[i].statuses[1] \in Failures
        /\ inv[i].outcome = UnableToFetch(i)
        /\ JiraReturned(j) /\ Truthy(inv[j].rets[1])
        /\ Len(WikiRequests(j)) = 2
        /\ inv[j].pc = "done"
        /\ wiki.exists /\ wiki.body = inv[j].args.test_plan

---------------------------------------------------------------------------
(* Properties of get_jira_ticket (SpecTicket).                             *)

Started(i) == inv[i].tool # "none"

SomeArgumentEmpty(i) == \E k \in DOMAIN inv[i].args : inv[i].args[k] = << >>

\* C4: a tool invoked with an empty required argument issues no HTTP
\* request and returns a textual validation error. Stated for a process
\* whose credentials are configured.
C4_ValidatesBeforeIO ==
    creds =>
        \A i \in Invs : (Started(i) /\ SomeArgumentEmpty(i)) =>
            /\ inv[i].http = << >>
            /\ inv[i].pc = "done"
            /\ inv[i].outcome.t = "return"

\* C5: every tool invocation ends by returning a string; an exception
\* raised inside the tool body never leaves the tool. Stated for a process
\* whose credentials are configured.
C5_AlwaysReturnsText ==
    creds =>
        \A i \in Invs : inv[i].pc = "done" => inv[i].outcome.t = "return"

\* The parent fetch of get_jira_ticket succeeded and declared a list of
\* sub-issue references.
ParentDeclares(i) ==
    /\ inv[i].tool = "get_jira_ticket"
    /\ Len(inv[i].rets) >= 1
    /\ inv[i].rets[1].t = "obj"
    /\ "fields" \in DOMAIN inv[i].rets[1].fields
    /\ inv[i].rets[1].fields.fields.t = "obj"
    /\ "subtasks" \in DOMAIN inv[i].rets[1].fields.fields.fields
    /\ inv[i].rets[1].fields.fields.fields.subtasks.t = "list"

Declared(i) == inv[i].rets[1].fields.fields.fields.subtasks.items

\* The number of sub-issue entries in a report.
EntryCount(text) == Cardinality({k \in DOMAIN text : text[k] = EntryMark})

\* C9: when the parent fetch succeeds with n declared sub-issues, the
\* invocation ends with a report of exactly n sub-issue entries, whatever
\* the references and the sub-issue responses are.
C9_OneEntryPerSubIssue ==
    \A i \in Invs : (ParentDeclares(i) /\ inv[i].pc = "done") =>
        /\ inv[i].outcome.t = "return"
        /\ EntryCount(inv[i].outcome.text) = Len(Declared(i))

---------------------------------------------------------------------------
(* Properties of extract_description_from_jira (SpecExtract).              *)

HasField(v, k) == v.t = "obj" /\ k \in DOMAIN v.fields
IsKind(v, kind) == HasField(v, "type") /\ v.fields.type = Str(<<kind>>)
ContentOf(v) == IF HasField(v, "content") THEN v.fields.content ELSE Lst(<< >>)
ItemsOf(c) == IF c.t = "list" THEN c.items ELSE << >>
Range(q) == {q[k] : k \in DOMAIN q}

\* A text value that is present and is not a string.
NonStringText(n) == IsKind(n, "text") /\ HasField(n, "text") /\ n.fields.text.t # "str"

\* A document with one of the malformations of the schema: a block node
\* that is not an object, a paragraph whose content is not a sequence, an
\* inline node that is not an object, a text value that is not a string.
Malformed(d) ==
    /\ HasField(d, "content")
    /\ d.fields.content.t = "list"
    /\ \E b \in Range(d.fields.content.items) :
          \/ b.t # "obj"
          \/ /\ IsKind(b, "paragraph")
             /\ \/ ContentOf(b).t # "list"
                \/ \E n \in Range(ItemsOf(ContentOf(b))) : n.t # "obj" \/ NonStringText(n)

\* A content value the traversal cannot walk: the for loop raises on a
\* number or null, and the items of a non-empty string (its characters) or
\* of a non-empty object (its keys) are strings, which have no .get.
Unwalkable(c) ==
    \/ c.t \in {"null", "num"}
    \/ c.t = "str" /\ c.s # << >>
    \/ c.t = "obj" /\ DOMAIN c.fields # {}

\* The traversal of d fails: d or a block is not an object, the content of
\* d or of a paragraph cannot be walked, an inline node of a paragraph is
\* not an object, or a text value is truthy and not a string.
Trips(d) ==
    \/ d.t # "obj"
    \/ Unwalkable(ContentOf(d)) /\ Truthy(ContentOf(d))
    \/ \E b \in Range(ItemsOf(ContentOf(d))) :
          \/ b.t # "obj"
          \/ /\ IsKind(b, "paragraph")
             /\ \/ Unwalkable(ContentOf(b))
                \/ \E n \in Range(ItemsOf(ContentOf(b))) :
                      \/ n.t # "obj"
                      \/ NonStringText(n) /\ Truthy(n.fields.text)

\* The non-empty string text runs of one block: those of its text nodes
\* when it is a paragraph, none otherwise.
RunsOfBlock(b) ==
    IF IsKind(b, "paragraph")
    THEN LET texts == SelectSeq(ItemsOf(ContentOf(b)),
                                LAMBDA n : /\ IsKind(n, "text") /\ HasField(n, "text")
                                           /\ n.fields.text.t = "str"
                                           /\ n.fields.text.s # << >>)
         IN  [k \in DOMAIN texts |-> texts[k].fields.text.s]
    ELSE << >>

\* The text runs of a document, blocks top to bottom, inline nodes left to
\* right.
RECURSIVE RunsOfBlocks(_)
RunsOfBlocks(blocks) ==
    IF blocks = << >> THEN << >>
    ELSE RunsOfBlock(Head(blocks)) \o RunsOfBlocks(Tail(blocks))

Runs(d) == RunsOfBlocks(ItemsOf(ContentOf(d)))

\* The runs with one space between neighbours.
RECURSIVE JoinSpaces(_)
JoinSpaces(runs) ==
    IF runs = << >> THEN << >>
    ELSE IF Len(runs) = 1 THEN runs[1]
    ELSE JoinSpaces(SubSeq(runs, 1, Len(runs) - 1)) \o <<" ">> \o runs[Len(runs)]

\* C7 as stated: every malformed document yields exactly the sentinel.
C7_SentinelForEveryMalformed ==
    Malformed(doc) => \A k \in DOMAIN extracted : extracted[k] = Str(NoDescription)

\* C7 as amended: the extractor never raises and never returns the empty
\* string; it returns exactly the sentinel for every absent or empty
\* document, every document without block nodes or without extractable
\* text runs, and every document on which the traversal fails; a malformed
\* part the traversal does not trip over is skipped and the text runs of
\* the rest are returned.
C7_NeverRaisesNeverEmpty ==
    \A k \in DOMAIN extracted :
        /\ extracted[k].t = "str"
        /\ extracted[k].s # << >>
        /\ (~Truthy(doc) \/ Trips(doc) \/ Runs(doc) = << >>)
              => extracted[k] = Str(NoDescription)
        /\ (Malformed(doc) /\ ~Trips(doc) /\ Runs(doc) # << >>)
              => extracted[k] = Str(JoinSpaces(Runs(doc)))

\* A paragraph with a text run followed by a paragraph whose content is a
\* number: the traversal failed and the sentinel came back.
C7_Witness ==
    /\ doc = Document(Lst(<<Paragraph(Lst(<<TextNode(Str(<<"a">>))>>)), Paragraph(Num(7))>>))
    /\ extracted # << >>
    /\ extracted[1] = Str(NoDescription)

\* Blocks and inline nodes of the documented schema: objects with a type,
\* a sequence as content, and non-empty strings as text values.
WellFormed(d) ==
    /\ HasField(d, "content")
    /\ d.fields.content.t = "list"
    /\ \A b \in Range(d.fields.content.items) :
          /\ HasField(b, "type") /\ HasField(b, "content")
          /\ b.fields.content.t = "list"
          /\ \A n \in Range(b.fields.content.items) :
                /\ HasField(n, "type")
                /\ IsKind(n, "text") =>
                      /\ HasField(n, "text")
                      /\ n.fields.text.t = "str"
                      /\ n.fields.text.s # << >>

\* C8: for a well-formed document with text runs the extractor returns the
\* text runs of its paragraph blocks joined by single spaces in document
\* order, skipping blocks that are not paragraphs and inline nodes that are
\* not text, and a second call on the same document returns the same.
C8_JoinedInDocumentOrder ==
    (WellFormed(doc) /\ Runs(doc) # << >>) =>
        \A k \in DOMAIN extracted : extracted[k] = Str(JoinSpaces(Runs(doc)))

\* Two paragraphs, the first with a skipped inline node, extracted twice.
C8_Witness ==
    /\ doc = Document(Lst(<< Paragraph(Lst(<<TextNode(Str(<<"a">>)), MentionNode>>)),
                            Paragraph(Lst(<<TextNode(Str(<<"b">>)), TextNode(Str(<<"a">>))>>)) >>))
    /\ extracted = << Str(<<"a", " ", "b", " ", "a">>), Str(<<"a", " ", "b", " ", "a">>) >>

====
